---- MODULE Spec2Model ----
(***************************************************************************)
(* Model of lib/txMode.js: the frozen isolationLevel enumeration and the   *)
(* TransactionMode constructor, which turns (tiLevel, readOnly,            *)
(* deferrable) into the text of a BEGIN command.                           *)
(*                                                                         *)
(* JavaScript values are tagged records; strings are sequences of          *)
(* one-character strings, so that spaces, substrings and letter case are   *)
(* observable.                                                             *)
(***************************************************************************)
EXTENDS Integers, Sequences, FiniteSets

VARIABLES
    isolationLevel,  \* the exported enumeration object (lines 8-22)
    args,            \* the arguments the caller passes to TransactionMode
    instances,       \* the closures (begin, capBegin) of the instances built so far
    first,           \* history: per instance, what begin first returned for each flag
    result           \* completion of the last operation

vars == <<isolationLevel, args, instances, first, result>>

---------------------------------------------------------------------------
(* Bounds of the model.                                                    *)

\* Largest number of TransactionMode instances alive at once in SpecLife.
MaxInstances == 2

\* Largest integer mantissa of a numeric tiLevel the caller passes.
MaxLevel == 5

---------------------------------------------------------------------------
(* JavaScript values.                                                      *)

Undefined == [t |-> "undefined"]

Null == [t |-> "null"]

Bool(b) == [t |-> "boolean", b |-> b]

\* The finite number m * 10^e; m carries no trailing zero (0 is Num(0, 0)).
Num(m, e) == [t |-> "number", k |-> "finite", m |-> m, e |-> e]

NaN == [t |-> "number", k |-> "NaN"]

Infinity == [t |-> "number", k |-> "Infinity"]

NegInfinity == [t |-> "number", k |-> "-Infinity"]

Str(s) == [t |-> "string", s |-> s]

Symbol == [t |-> "symbol"]

\* A plain object literal; f maps its own property names to values.
Obj(f) == [t |-> "object", f |-> f]

\* An abrupt completion: the operation threw.
Throw(e) == [t |-> "throw", error |-> e]

IsThrow(v) == v.t = "throw"

\* typeof v (typeof null is 'object').
TypeOf(v) == IF v.t = "null" THEN "object" ELSE v.t

\* o.name: an absent property reads as undefined.
Get(o, name) == IF name \in DOMAIN o.f THEN o.f[name] ELSE Undefined

\* ToBoolean, as applied by if (...), && and ?:.
ToBoolean(v) ==
    CASE v.t = "undefined" -> FALSE
      [] v.t = "null"      -> FALSE
      [] v.t = "boolean"   -> v.b
      [] v.t = "number"    -> IF v.k = "finite" THEN v.m # 0 ELSE v.k # "NaN"
      [] v.t = "string"    -> Len(v.s) > 0
      [] v.t = "symbol"    -> TRUE
      [] v.t = "object"    -> TRUE

---------------------------------------------------------------------------
(* Characters and strings.                                                 *)

DigitChars == <<"0", "1", "2", "3", "4", "5", "6", "7", "8", "9">>

LowerChars == <<"a", "b", "c", "d", "e", "f", "g", "h", "i", "j", "k", "l", "m", "n", "o", "p", "q", "r", "s", "t", "u", "v", "w", "x", "y", "z">>

UpperChars == <<"A", "B", "C", "D", "E", "F", "G", "H", "I", "J", "K", "L", "M", "N", "O", "P", "Q", "R", "S", "T", "U", "V", "W", "X", "Y", "Z">>

IndexOf(c, table) == IF \E i \in DOMAIN table : table[i] = c
                     THEN CHOOSE i \in DOMAIN table : table[i] = c
                     ELSE 0

UpperChar(c) == IF IndexOf(c, LowerChars) > 0 THEN UpperChars[IndexOf(c, LowerChars)] ELSE c

LowerChar(c) == IF IndexOf(c, UpperChars) > 0 THEN LowerChars[IndexOf(c, UpperChars)] ELSE c

\* String.prototype.toUpperCase
ToUpperCase(s) == [i \in DOMAIN s |-> UpperChar(s[i])]

\* The digit a character stands for, from its places among the decimal
\* digits and among the letters ("a" is 10), or -1.
RawDigit(d, h) == IF d > 0 THEN d - 1 ELSE IF h > 0 THEN h + 9 ELSE -1

InRadix(v, radix) == IF v >= 0 /\ v < radix THEN v ELSE -1

\* Value of character c as a digit of the given radix, or -1.
DigitValue(c, radix) ==
    InRadix(RawDigit(IndexOf(c, DigitChars), IndexOf(LowerChar(c), LowerChars)), radix)

IsWhiteSpace(c) == c = " "

RECURSIVE TrimLeft(_)
TrimLeft(s) == IF s # <<>> /\ IsWhiteSpace(Head(s)) THEN TrimLeft(Tail(s)) ELSE s

RECURSIVE TrimRight(_)
TrimRight(s) == IF s # <<>> /\ IsWhiteSpace(s[Len(s)])
                THEN TrimRight(SubSeq(s, 1, Len(s) - 1)) ELSE s

\* Length of the longest prefix of s made of digits of the radix.
RECURSIVE DigitRun(_, _)
DigitRun(s, radix) == IF s # <<>> /\ DigitValue(Head(s), radix) >= 0
                      THEN 1 + DigitRun(Tail(s), radix) ELSE 0

\* The number a sequence of digits of the radix denotes.
RECURSIVE DigitsValue(_, _)
DigitsValue(s, radix) == IF s = <<>> THEN 0
                         ELSE DigitsValue(SubSeq(s, 1, Len(s) - 1), radix) * radix
                              + DigitValue(s[Len(s)], radix)

Drop(s, n) == SubSeq(s, n + 1, Len(s))

StartsWith(s, p) == Len(s) >= Len(p) /\ SubSeq(s, 1, Len(p)) = p

HasSign(s) == s # <<>> /\ Head(s) \in {"+", "-"}

HasMinus(s) == s # <<>> /\ Head(s) = "-"

StripSign(s) == IF HasSign(s) THEN Tail(s) ELSE s

\* Decimal digits of a positive integer.
RECURSIVE Digits(_)
Digits(n) == IF n < 10 THEN <<DigitChars[n + 1]>>
             ELSE Digits(n \div 10) \o <<DigitChars[(n % 10) + 1]>>

Zeros(n) == [i \in 1..n |-> "0"]

Abs(x) == IF x < 0 THEN -x ELSE x

---------------------------------------------------------------------------
(* Conversions of the language used by line 67.                            *)

\* The exponent part of a number's string: e+x or e-x.
ExponentPart(x) == <<"e", IF x < 0 THEN "-" ELSE "+">> \o Digits(Abs(x))

\* Number::toString of the k digits ds with the decimal point after the
\* n-th digit.
PlaceDigits(ds, k, n) ==
    CASE k <= n /\ n <= 21 -> ds \o Zeros(n - k)
      [] 0 < n /\ n < k    -> SubSeq(ds, 1, n) \o <<".">> \o Drop(ds, n)
      [] -6 < n /\ n <= 0  -> <<"0", ".">> \o Zeros(-n) \o ds
      [] OTHER -> IF k = 1 THEN ds \o ExponentPart(n - 1)
                  ELSE <<ds[1], ".">> \o Drop(ds, 1) \o ExponentPart(n - 1)

DigitsToString(ds, e) == PlaceDigits(ds, Len(ds), Len(ds) + e)

\* Number::toString of m * 10^e, m > 0 without trailing zero.
PosToString(m, e) == DigitsToString(Digits(m), e)

NumberToString(v) ==
    CASE v.k = "NaN"       -> <<"N", "a", "N">>
      [] v.k = "Infinity"  -> <<"I", "n", "f", "i", "n", "i", "t", "y">>
      [] v.k = "-Infinity" -> <<"-", "I", "n", "f", "i", "n", "i", "t", "y">>
      [] OTHER -> IF v.m = 0 THEN <<"0">>
                  ELSE (IF v.m < 0 THEN <<"-">> ELSE <<>>) \o PosToString(Abs(v.m), v.e)

\* ToString; a symbol cannot be converted.
ToString(v) ==
    CASE v.t = "undefined" -> Str(<<"u", "n", "d", "e", "f", "i", "n", "e", "d">>)
      [] v.t = "null"      -> Str(<<"n", "u", "l", "l">>)
      [] v.t = "boolean"   -> Str(IF v.b THEN <<"t", "r", "u", "e">> ELSE <<"f", "a", "l", "s", "e">>)
      [] v.t = "number"    -> Str(NumberToString(v))
      [] v.t = "string"    -> v
      [] v.t = "symbol"    -> Throw("TypeError")
      [] v.t = "object"    -> Str(<<"[", "o", "b", "j", "e", "c", "t", " ", "O", "b", "j", "e", "c", "t", "]">>)

\* A decimal literal is read left to right; the reader's state is the text
\* still unread, the mantissa digits read, the number of fraction digits,
\* the exponent, and whether an exponent mark was followed by digits.
TakeInteger(s, n) ==
    [rest |-> Drop(s, n), digits |-> SubSeq(s, 1, n), frac |-> 0, exp |-> 0, ok |-> TRUE]

IntegerPart(s) == TakeInteger(s, DigitRun(s, 10))

TakeFraction(p, r, n) == [p EXCEPT !.rest = Drop(r, n), !.digits = @ \o SubSeq(r, 1, n), !.frac = n]

FractionDigits(p, r) == TakeFraction(p, r, DigitRun(r, 10))

FractionPart(p) ==
    IF p.rest # <<>> /\ Head(p.rest) = "." THEN FractionDigits(p, Tail(p.rest)) ELSE p

TakeExponent(p, r, n, negative) ==
    [p EXCEPT !.rest = Drop(r, n),
              !.exp = IF negative THEN -DigitsValue(SubSeq(r, 1, n), 10)
                      ELSE DigitsValue(SubSeq(r, 1, n), 10),
              !.ok = n > 0]

ExponentDigits(p, r, negative) == TakeExponent(p, r, DigitRun(r, 10), negative)

ExponentSigned(p, r) == ExponentDigits(p, StripSign(r), HasMinus(r))

ExponentMark(p) ==
    IF p.rest # <<>> /\ LowerChar(Head(p.rest)) = "e" THEN ExponentSigned(p, Tail(p.rest)) ELSE p

\* The value read, or NaN when no mantissa digit was read, an exponent
\* mark had no digits, or text is left over.
LiteralValue(p, negative) ==
    IF p.digits = <<>> \/ ~p.ok \/ p.rest # <<>> THEN NaN
    ELSE Num(IF negative THEN -DigitsValue(p.digits, 10) ELSE DigitsValue(p.digits, 10),
             p.exp - p.frac)

\* StringToNumber of an unsigned decimal literal body:
\* digits [. digits] [e [sign] digits] with at least one mantissa digit.
DecimalLiteral(s, negative) ==
    LiteralValue(ExponentMark(FractionPart(IntegerPart(s))), negative)

RadixOf(p) == CASE p = "x" -> 16 [] p = "o" -> 8 [] p = "b" -> 2

RadixBody(body, radix) ==
    IF body # <<>> /\ DigitRun(body, radix) = Len(body)
    THEN Num(DigitsValue(body, radix), 0) ELSE NaN

\* A 0x / 0o / 0b literal, which takes no sign.
RadixLiteral(s) == RadixBody(Drop(s, 2), RadixOf(LowerChar(s[2])))

\* StringToNumber of a trimmed string, which must be a numeric literal as
\* a whole. The value is returned unnormalised (m may carry trailing
\* zeros); only its sign is read.
TrimmedToNumber(s) ==
    CASE s = <<>> -> Num(0, 0)
      [] StripSign(s) = <<"I", "n", "f", "i", "n", "i", "t", "y">> -> IF HasMinus(s) THEN NegInfinity ELSE Infinity
      [] ~HasSign(s) /\ Len(s) >= 2 /\ s[1] = "0" /\ LowerChar(s[2]) \in {"x", "o", "b"}
           -> RadixLiteral(s)
      [] OTHER -> DecimalLiteral(StripSign(s), HasMinus(s))

StringToNumber(str) == TrimmedToNumber(TrimRight(TrimLeft(str)))

\* ToPrimitive with hint number: a plain object converts through its
\* string form.
ToPrimitive(v) == IF v.t = "object" THEN ToString(v) ELSE v

PrimitiveToNumber(v) ==
    CASE v.t = "undefined" -> NaN
      [] v.t = "null"      -> Num(0, 0)
      [] v.t = "boolean"   -> Num(IF v.b THEN 1 ELSE 0, 0)
      [] v.t = "number"    -> v
      [] v.t = "string"    -> StringToNumber(v.s)
      [] v.t = "symbol"    -> Throw("TypeError")

\* ToNumber; a symbol cannot be converted.
ToNumber(v) == PrimitiveToNumber(ToPrimitive(v))

\* n > 0 for a number n.
IsPositive(n) == IF n.k = "finite" THEN n.m > 0 ELSE n.k = "Infinity"

\* n > 0 for the outcome n of ToNumber: a boolean or the exception.
PositiveOrThrow(n) == IF IsThrow(n) THEN n ELSE Bool(IsPositive(n))

\* v > 0: true, false or an abrupt completion.
GreaterThanZero(v) == PositiveOrThrow(ToNumber(v))

\* The integer the first n characters of s denote, NaN for none.
PrefixValue(s, n, radix, negative) ==
    IF n = 0 THEN NaN
    ELSE Num(IF negative THEN -DigitsValue(SubSeq(s, 1, n), radix)
             ELSE DigitsValue(SubSeq(s, 1, n), radix), 0)

ParseDigits(s, radix, negative) == PrefixValue(s, DigitRun(s, radix), radix, negative)

IsHex(s) == Len(s) >= 2 /\ s[1] = "0" /\ LowerChar(s[2]) = "x"

ParseUnsigned(s, negative) ==
    ParseDigits(IF IsHex(s) THEN Drop(s, 2) ELSE s, IF IsHex(s) THEN 16 ELSE 10, negative)

ParseSigned(s) == ParseUnsigned(StripSign(s), HasMinus(s))

ParseString(str) == IF IsThrow(str) THEN str ELSE ParseSigned(TrimLeft(str.s))

\* parseInt(v) with no radix argument.
ParseInt(v) == ParseString(ToString(v))

---------------------------------------------------------------------------
(* The isolationLevel enumeration, lines 8-22.                             *)

\* The object literal of lines 8-20, as created: extensible, its
\* properties writable and configurable.
IsolationLevelLiteral ==
    [props |-> [none |-> 0, serializable |-> 1, repeatableRead |-> 2, readCommitted |-> 3],
     extensible |-> TRUE, writable |-> TRUE, configurable |-> TRUE]

\* A caller that skips the call of line 22.
ObjectFreezeMissing(o) == o

\* Object.freeze(o), line 22.
ObjectFreeze(o) == [o EXCEPT !.extensible = FALSE, !.writable = FALSE, !.configurable = FALSE]

\* o[k] = v on an ordinary object: the new properties, or the old ones
\* when the object refuses the write.
PutProp(o, k, v) ==
    IF (k \in DOMAIN o.props /\ o.writable) \/ (k \notin DOMAIN o.props /\ o.extensible)
    THEN [n \in DOMAIN o.props \cup {k} |-> IF n = k THEN v ELSE o.props[n]]
    ELSE o.props

\* delete o[k]
DeleteProp(o, k) ==
    IF k \in DOMAIN o.props /\ o.configurable
    THEN [n \in DOMAIN o.props \ {k} |-> o.props[n]]
    ELSE o.props

---------------------------------------------------------------------------
(* The TransactionMode constructor, lines 53-107.                          *)

\* Lines 59-63 written with fallbacks: a property the record lacks leaves
\* the positional value in place.
ArgumentsKeepPositional(a) ==
    IF ToBoolean(a.tiLevel) /\ TypeOf(a.tiLevel) = "object"
    THEN [tiLevel    |-> Get(a.tiLevel, "tiLevel"),
          readOnly   |-> IF "readOnly" \in DOMAIN a.tiLevel.f
                         THEN Get(a.tiLevel, "readOnly") ELSE a.readOnly,
          deferrable |-> IF "deferrable" \in DOMAIN a.tiLevel.f
                         THEN Get(a.tiLevel, "deferrable") ELSE a.deferrable]
    ELSE a

\* Lines 59-63: a truthy first argument of type 'object' is the record
\* {tiLevel, readOnly, deferrable} and replaces all three parameters.
Arguments(a) ==
    IF ToBoolean(a.tiLevel) /\ TypeOf(a.tiLevel) = "object"
    THEN [tiLevel    |-> Get(a.tiLevel, "tiLevel"),
          readOnly   |-> Get(a.tiLevel, "readOnly"),
          deferrable |-> Get(a.tiLevel, "deferrable")]
    ELSE a

\* Line 67, given the outcome c of tiLevel > 0.
Conditional(c, tiLevel) ==
    IF IsThrow(c) THEN c
    ELSE IF c.b THEN ParseInt(tiLevel) ELSE Num(0, 0)

\* Line 67: tiLevel = (tiLevel > 0) ? parseInt(tiLevel) : 0
NormalizeLevel(tiLevel) == Conditional(GreaterThanZero(tiLevel), tiLevel)

\* Line 70
values == << <<"s", "e", "r", "i", "a", "l", "i", "z", "a", "b", "l", "e">>, <<"r", "e", "p", "e", "a", "t", "a", "b", "l", "e", " ", "r", "e", "a", "d">>, <<"r", "e", "a", "d", " ", "c", "o", "m", "m", "i", "t", "t", "e", "d">> >>

\* Lines 69-72; n is the integer (or NaN) line 67 left in tiLevel. The
\* array of line 70 is indexed from 0, the sequence values from 1.
IsolationClause(n) ==
    IF IsPositive(n) /\ n.k = "finite" /\ n.m < 4
    THEN Str(<<"i", "s", "o", "l", "a", "t", "i", "o", "n", " ", "l", "e", "v", "e", "l", " ">> \o values[n.m])
    ELSE Undefined

\* Lines 74-80 with line 77 written as readOnly === false.
AccessModeStrict(readOnly) ==
    IF ToBoolean(readOnly) THEN Str(<<"r", "e", "a", "d", " ", "o", "n", "l", "y">>)
    ELSE IF readOnly = Bool(FALSE) THEN Str(<<"r", "e", "a", "d", " ", "w", "r", "i", "t", "e">>)
    ELSE Undefined

\* Lines 74-80
AccessMode(readOnly) ==
    IF ToBoolean(readOnly) THEN Str(<<"r", "e", "a", "d", " ", "o", "n", "l", "y">>)
    ELSE IF readOnly # Undefined THEN Str(<<"r", "e", "a", "d", " ", "w", "r", "i", "t", "e">>)
    ELSE Undefined

\* Lines 82-88 with line 85 written as deferrable === false.
DeferrableModeStrict(deferrable) ==
    IF ToBoolean(deferrable) THEN Str(<<"d", "e", "f", "e", "r", "r", "a", "b", "l", "e">>)
    ELSE IF deferrable = Bool(FALSE) THEN Str(<<"n", "o", "t", " ", "d", "e", "f", "e", "r", "r", "a", "b", "l", "e">>)
    ELSE Undefined

\* Lines 82-88
DeferrableMode(deferrable) ==
    IF ToBoolean(deferrable) THEN Str(<<"d", "e", "f", "e", "r", "r", "a", "b", "l", "e">>)
    ELSE IF deferrable # Undefined THEN Str(<<"n", "o", "t", " ", "d", "e", "f", "e", "r", "r", "a", "b", "l", "e">>)
    ELSE Undefined

\* Lines 90-100 with the separator forgotten: begin += clause
AppendClauseNoSpace(begin, clause) ==
    IF ToBoolean(clause) THEN begin \o clause.s ELSE begin

\* Lines 90-100, one of the three steps: if (clause) begin += ' ' + clause
AppendClause(begin, clause) ==
    IF ToBoolean(clause) THEN begin \o <<" ">> \o clause.s ELSE begin

\* Lines 102-106: the two strings the instance keeps.
Closure(begin) == [t |-> "closure", begin |-> begin, capBegin |-> ToUpperCase(begin)]

\* Lines 65-106 for the parameters p and the normalized level n.
Assemble(n, p) ==
    IF IsThrow(n) THEN n
    ELSE Closure(AppendClause(
                   AppendClause(
                     AppendClause(<<"b", "e", "g", "i", "n">>, IsolationClause(n)),
                     AccessMode(p.readOnly)),
                   DeferrableMode(p.deferrable)))

\* Lines 65-106 for the parameters p left by lines 59-63.
Build(p) == Assemble(NormalizeLevel(p.tiLevel), p)

\* Lines 59-106: the closure the constructor leaves behind, or the
\* exception that ends it.
TransactionModeBody(a) == Build(Arguments(a))

\* Line 56 passing on the first argument only.
ForwardArgsOnlyLevel(a) == [tiLevel |-> a.tiLevel, readOnly |-> Undefined, deferrable |-> Undefined]

\* Line 56: the arguments a call without new passes on to new.
ForwardArgs(a) == [tiLevel |-> a.tiLevel, readOnly |-> a.readOnly, deferrable |-> a.deferrable]

\* Lines 104-106 with the two branches exchanged.
BeginFnSwapped(inst, cap) == IF ToBoolean(cap) THEN inst.begin ELSE inst.capBegin

\* Lines 104-106: this.begin
BeginFn(inst, cap) == IF ToBoolean(cap) THEN inst.capBegin ELSE inst.begin

\* begin and capBegin declared at module level: every instance's closure
\* reads the strings of the latest construction.
StoreInstanceShared(insts, c) == [i \in 1..(Len(insts) + 1) |-> c]

\* Lines 65 and 104: begin and capBegin are locals of one constructor
\* call, captured by that instance's closure only.
StoreInstance(insts, c) == Append(insts, c)

---------------------------------------------------------------------------
(* The values callers pass.                                                *)

Mantissas == {m \in ((-2)..MaxLevel) \cup {15, 39, 999} : m % 10 # 0}

Exponents == {-7, -1, 0, 1, 21}

NumLevels == {Num(m, e) : m \in Mantissas, e \in Exponents}
             \cup {Num(0, 0), NaN, Infinity, NegInfinity}

StrLevels == {Str(s) : s \in {<<>>, <<" ">>, <<"0">>, <<"1">>, <<"2">>, <<"3">>, <<"4">>, <<" ", "2", " ">>,
                              <<"0", "2">>, <<"+", "3">>, <<"-", "1">>, <<"2", "a", "b", "c">>, <<"a", "b", "c">>, <<"1", "e", "1">>, <<"3", "e", "-", "1">>,
                              <<"0", "x", "2">>, <<"0", "b", "1", "1">>, <<"1", ".", "9">>, <<".", "5">>, <<"I", "n", "f", "i", "n", "i", "t", "y">>}}

Levels == NumLevels \cup StrLevels \cup {Undefined, Null, Bool(TRUE), Bool(FALSE), Symbol}

Flags == {Undefined, Null, Bool(TRUE), Bool(FALSE), Num(0, 0), NaN, Str(<<>>), Str(<<"n", "o">>)}

\* Marks a property the record does not have.
Absent == [t |-> "absent"]

RecordOf(l, r, d) ==
    LET given == [tiLevel |-> l, readOnly |-> r, deferrable |-> d]
    IN Obj([n \in {x \in DOMAIN given : given[x] # Absent} |-> given[n]])

RecLevels == {Absent, Undefined, Num(1, 0), Num(3, 0), Num(4, 0), Num(1, 21),
              Str(<<"2">>), Symbol, Obj(<<>>)}

RecFlags == {Absent, Undefined, Null, Bool(TRUE), Bool(FALSE)}

Records == {RecordOf(l, r, d) : l \in RecLevels, r \in RecFlags, d \in RecFlags}

PositionalArgs == [tiLevel : Levels, readOnly : Flags, deferrable : Flags]

RecordArgs == [tiLevel : Records,
               readOnly : {Undefined, Bool(TRUE), Bool(FALSE)},
               deferrable : {Undefined, Bool(TRUE), Bool(FALSE)}]

AllArgs == PositionalArgs \cup RecordArgs

\* The configurations used where several instances live side by side.
LifeArgs ==
    { [tiLevel |-> Undefined, readOnly |-> Undefined, deferrable |-> Undefined],
      [tiLevel |-> Num(1, 0), readOnly |-> Bool(TRUE), deferrable |-> Bool(FALSE)],
      [tiLevel |-> RecordOf(Num(3, 0), Bool(FALSE), Absent),
       readOnly |-> Bool(TRUE), deferrable |-> Bool(TRUE)] }

\* The flags begin is called with.
CapValues == {Bool(TRUE), Bool(FALSE), Undefined}

PropNames == {"none", "serializable", "repeatableRead", "readCommitted"}

\* The value a caller tries to store in the enumeration.
NewValues == {4}

---------------------------------------------------------------------------
(* State machine.                                                          *)

NoCall == [lower |-> Undefined, upper |-> Undefined]

InitCommon ==
    /\ isolationLevel = ObjectFreeze(IsolationLevelLiteral)
    /\ instances = <<>>
    /\ first = <<>>
    /\ result = [op |-> "none"]

Init == InitCommon /\ args \in AllArgs

InitLife == InitCommon /\ args \in LifeArgs

\* The constructor ends with c: the exception, or the closure of a new
\* instance.
Complete(op, c) ==
    /\ IF IsThrow(c)
       THEN /\ result' = [op |-> op, value |-> c]
            /\ UNCHANGED <<instances, first>>
       ELSE /\ instances' = StoreInstance(instances, [begin |-> c.begin, capBegin |-> c.capBegin])
            /\ first' = Append(first, NoCall)
            /\ result' = [op |-> op, value |-> [t |-> "instance", ref |-> Len(instances) + 1]]
    /\ UNCHANGED <<isolationLevel, args>>

\* One run of the constructor on a, reached through op ("new" or "call").
Construct(op, a) == Complete(op, TransactionModeBody(a))

\* new TransactionMode(tiLevel, readOnly, deferrable): line 55 is false.
New == Len(instances) < MaxInstances /\ Construct("new", args)

\* TransactionMode(tiLevel, readOnly, deferrable): lines 55-57.
Call == Len(instances) < MaxInstances /\ Construct("call", ForwardArgs(args))

\* The same two, applied once to the arguments drawn by Init.
NewOnce == instances = <<>> /\ Construct("new", args)

CallOnce == instances = <<>> /\ Construct("call", ForwardArgs(args))

\* instance.begin(cap), lines 104-106.
Begin ==
    \E i \in DOMAIN instances, cap \in CapValues :
        LET ret  == BeginFn(instances[i], cap)
            slot == IF ToBoolean(cap) THEN "upper" ELSE "lower"
            seen == first[i][slot] # Undefined
        IN /\ result' = [op |-> "begin", ref |-> i, cap |-> ToBoolean(cap), again |-> seen,
                         value |-> Str(ret)]
           /\ first' = IF seen THEN first
                       ELSE [first EXCEPT ![i] = [@ EXCEPT ![slot] = Str(ret)]]
           /\ UNCHANGED <<isolationLevel, args, instances>>

\* The caller turns to another configuration.
Pick == /\ args' \in LifeArgs \ {args}
        /\ UNCHANGED <<isolationLevel, instances, first, result>>

\* A caller's isolationLevel.k = v for a member k. A refused write throws
\* in strict-mode callers and is dropped silently in the others.
Assign ==
    \E k \in PropNames, v \in NewValues, strict \in BOOLEAN :
        LET p == PutProp(isolationLevel, k, v)
        IN /\ isolationLevel' = [isolationLevel EXCEPT !.props = p]
           /\ result' = [op |-> "assign",
                         value |-> IF p[k] # v /\ strict THEN Throw("TypeError") ELSE Num(v, 0)]
           /\ UNCHANGED <<args, instances, first>>

\* A caller's isolationLevel.snapshot = v, a member the object lacks.
Add ==
    \E v \in NewValues, strict \in BOOLEAN :
        LET p == PutProp(isolationLevel, "snapshot", v)
        IN /\ isolationLevel' = [isolationLevel EXCEPT !.props = p]
           /\ result' = [op |-> "add",
                         value |-> IF "snapshot" \notin DOMAIN p /\ strict
                                   THEN Throw("TypeError") ELSE Num(v, 0)]
           /\ UNCHANGED <<args, instances, first>>

\* A caller's delete isolationLevel.k
Delete ==
    \E k \in PropNames, strict \in BOOLEAN :
        LET p == DeleteProp(isolationLevel, k)
        IN /\ isolationLevel' = [isolationLevel EXCEPT !.props = p]
           /\ result' = [op |-> "delete",
                         value |-> IF k \in DOMAIN p /\ strict
                                   THEN Throw("TypeError") ELSE Bool(k \notin DOMAIN p)]
           /\ UNCHANGED <<args, instances, first>>

\* The constructor as a function of its arguments.
Next == NewOnce \/ CallOnce \/ Begin

Spec == Init /\ [][Next]_vars

\* Several instances, several configurations and the enumeration's users.
NextLife == Pick \/ New \/ Call \/ Begin \/ Assign \/ Add \/ Delete

SpecLife == InitLife /\ [][NextLife]_vars

---------------------------------------------------------------------------
(* Vocabulary of the properties.                                           *)

Contains(s, sub) ==
    \E i \in 1..(Len(s) - Len(sub) + 1) : SubSeq(s, i, i + Len(sub) - 1) = sub

Occurrences(s, sub) ==
    Cardinality({i \in 1..(Len(s) - Len(sub) + 1) : SubSeq(s, i, i + Len(sub) - 1) = sub})

\* The call passes a configuration record as its first argument.
IsRecordCall == args.tiLevel.t = "object"

\* The configuration the caller states, in either shape.
Config ==
    IF IsRecordCall
    THEN [tiLevel    |-> Get(args.tiLevel, "tiLevel"),
          readOnly   |-> Get(args.tiLevel, "readOnly"),
          deferrable |-> Get(args.tiLevel, "deferrable")]
    ELSE args

\* The last operation was a construction that completed.
Constructed == result.op \in {"new", "call"} /\ result.value.t = "instance"

IsoClauses == { <<" ", "i", "s", "o", "l", "a", "t", "i", "o", "n", " ", "l", "e", "v", "e", "l", " ", "s", "e", "r", "i", "a", "l", "i", "z", "a", "b", "l", "e">>,
                <<" ", "i", "s", "o", "l", "a", "t", "i", "o", "n", " ", "l", "e", "v", "e", "l", " ", "r", "e", "p", "e", "a", "t", "a", "b", "l", "e", " ", "r", "e", "a", "d">>,
                <<" ", "i", "s", "o", "l", "a", "t", "i", "o", "n", " ", "l", "e", "v", "e", "l", " ", "r", "e", "a", "d", " ", "c", "o", "m", "m", "i", "t", "t", "e", "d">> }

\* The language of section 6: every string the grammar allows.
GrammarStrings ==
    { <<"b", "e", "g", "i", "n">> \o iso \o acc \o def :
        iso \in {<<>>} \cup IsoClauses,
        acc \in {<<>>, <<" ", "r", "e", "a", "d", " ", "o", "n", "l", "y">>, <<" ", "r", "e", "a", "d", " ", "w", "r", "i", "t", "e">>},
        def \in {<<>>, <<" ", "d", "e", "f", "e", "r", "r", "a", "b", "l", "e">>, <<" ", "n", "o", "t", " ", "d", "e", "f", "e", "r", "r", "a", "b", "l", "e">>} }

WellSpaced(s) == /\ s[Len(s)] # " "
                 /\ ~Contains(s, <<" ", " ">>)

IsLowerCase(s) == \A j \in DOMAIN s : LowerChar(s[j]) = s[j]

IsUpperCase(s) == \A j \in DOMAIN s : UpperChar(s[j]) = s[j]

HasReadOnly(b) == Contains(b, <<"r", "e", "a", "d", " ", "o", "n", "l", "y">>)

HasReadWrite(b) == Contains(b, <<"r", "e", "a", "d", " ", "w", "r", "i", "t", "e">>)

HasDeferrable(b) == Contains(b, <<"d", "e", "f", "e", "r", "r", "a", "b", "l", "e">>)

HasNotDeferrable(b) == Contains(b, <<"n", "o", "t", " ", "d", "e", "f", "e", "r", "r", "a", "b", "l", "e">>)

HasIsolation(b) == Contains(b, <<"i", "s", "o", "l", "a", "t", "i", "o", "n", " ", "l", "e", "v", "e", "l">>)

RECURSIVE Pow10(_)
Pow10(n) == IF n = 0 THEN 1 ELSE 10 * Pow10(n - 1)

\* The number v is at least c (1 <= c <= 10).
AtLeast(v, c) ==
    /\ v.t = "number"
    /\ \/ v.k = "Infinity"
       \/ /\ v.k = "finite"
          /\ v.m > 0
          /\ IF v.e >= 1 THEN TRUE
             ELSE IF v.e = 0 THEN v.m >= c
             ELSE v.m >= c * Pow10(-v.e)

\* The number v is zero or negative.
AtMostZero(v) ==
    /\ v.t = "number"
    /\ \/ v.k = "-Infinity"
       \/ v.k = "finite" /\ v.m <= 0

\* A truthy string that is not the text of a number.
NonNumericString(v) == v.t = "string" /\ ToBoolean(v) /\ StringToNumber(v.s) = NaN

---------------------------------------------------------------------------
(* Properties.                                                             *)

\* C1: the lower-case text of every constructed instance is a sentence of
\* the grammar "begin" [isolation clause] [access clause] [deferrable
\* clause], in that order, each clause after exactly one space, with no
\* trailing space and no double space.
C1_Grammar ==
    \A i \in DOMAIN instances :
        /\ instances[i].begin \in GrammarStrings
        /\ WellSpaced(instances[i].begin)

\* An instance carrying all three clauses has been constructed.
C1_Witness ==
    /\ Constructed
    /\ instances[1].begin
         = <<"b", "e", "g", "i", "n", " ", "i", "s", "o", "l", "a", "t", "i", "o", "n", " ", "l", "e", "v", "e", "l", " ", "r", "e", "p", "e", "a", "t", "a", "b", "l", "e", " ", "r", "e", "a", "d", " ", "r", "e", "a", "d", " ", "w", "r", "i", "t", "e", " ", "n", "o", "t", " ", "d", "e", "f", "e", "r", "r", "a", "b", "l", "e">>

\* C2 as stated: "read only" for readOnly true, "read write" only for
\* readOnly exactly false, no access clause for readOnly unset.
C2_Original ==
    \A i \in DOMAIN instances :
        LET b == instances[i].begin
            r == Config.readOnly
        IN /\ r = Bool(TRUE) => HasReadOnly(b) /\ ~HasReadWrite(b)
           /\ HasReadWrite(b) => r = Bool(FALSE)
           /\ r = Undefined => ~HasReadOnly(b) /\ ~HasReadWrite(b)

\* C2 as the code has it: "read only" for readOnly true, "read write" for
\* every falsy readOnly other than undefined (false, null, 0, NaN, the
\* empty string) and for no other value, no access clause for readOnly
\* unset.
C2_Amended ==
    \A i \in DOMAIN instances :
        LET b == instances[i].begin
            r == Config.readOnly
        IN /\ r = Bool(TRUE) => HasReadOnly(b) /\ ~HasReadWrite(b)
           /\ HasReadWrite(b) <=> (~ToBoolean(r) /\ r # Undefined)
           /\ r \in {Bool(FALSE), Null, Num(0, 0), NaN, Str(<<>>)} => HasReadWrite(b)
           /\ r = Undefined => ~HasReadOnly(b) /\ ~HasReadWrite(b)

\* An instance constructed with readOnly null reads "read write".
C2_Witness ==
    /\ Constructed
    /\ Config.readOnly = Null
    /\ HasReadWrite(instances[1].begin)

\* C3 as stated: "deferrable" without "not deferrable" for deferrable
\* true, "not deferrable" only for deferrable exactly false, neither for
\* deferrable unset.
C3_Original ==
    \A i \in DOMAIN instances :
        LET b == instances[i].begin
            d == Config.deferrable
        IN /\ d = Bool(TRUE) => HasDeferrable(b) /\ ~HasNotDeferrable(b)
           /\ HasNotDeferrable(b) => d = Bool(FALSE)
           /\ d = Undefined => ~HasDeferrable(b)

\* C3 as the code has it: "deferrable" without "not deferrable" for
\* deferrable true, "not deferrable" for every falsy deferrable other
\* than undefined (false, null, 0, NaN, the empty string) and for no
\* other value, neither for deferrable unset, whatever tiLevel and
\* readOnly are.
C3_Amended ==
    \A i \in DOMAIN instances :
        LET b == instances[i].begin
            d == Config.deferrable
        IN /\ d = Bool(TRUE) => HasDeferrable(b) /\ ~HasNotDeferrable(b)
           /\ HasNotDeferrable(b) <=> (~ToBoolean(d) /\ d # Undefined)
           /\ d \in {Bool(FALSE), Null, Num(0, 0), NaN, Str(<<>>)} => HasNotDeferrable(b)
           /\ d = Undefined => ~HasDeferrable(b)

\* An instance constructed with an empty-string deferrable reads
\* "not deferrable".
C3_Witness ==
    /\ Constructed
    /\ Config.deferrable = Str(<<>>)
    /\ HasNotDeferrable(instances[1].begin)

\* C4: the isolation clause is present exactly when tiLevel normalizes to
\* 1, 2 or 3, it is then the matching clause, once and right after
\* "begin"; a tiLevel that is unset, zero, negative, 4 or greater, a
\* boolean or a truthy non-numeric string yields no "isolation level".
C4_IsolationClause ==
    \A i \in DOMAIN instances :
        LET b == instances[i].begin
            l == Config.tiLevel
            n == NormalizeLevel(l)
        IN /\ HasIsolation(b) <=> n \in {Num(1, 0), Num(2, 0), Num(3, 0)}
           /\ HasIsolation(b) =>
                /\ Occurrences(b, <<"i", "s", "o", "l", "a", "t", "i", "o", "n", " ", "l", "e", "v", "e", "l">>) = 1
                /\ StartsWith(b, <<"b", "e", "g", "i", "n", " ", "i", "s", "o", "l", "a", "t", "i", "o", "n", " ", "l", "e", "v", "e", "l", " ">> \o values[n.m])
           /\ ( \/ l = Undefined
                \/ AtMostZero(l)
                \/ AtLeast(l, 4)
                \/ l.t = "boolean"
                \/ NonNumericString(l) ) => ~HasIsolation(b)

\* C5: every construction completes and yields an instance whose begin
\* returns a string.
C5_NeverThrows ==
    result.op \in {"new", "call"} =>
        /\ result.value.t = "instance"
        /\ instances[result.value.ref].begin # <<>>

\* C6: a call whose first argument is a record with a scalar tiLevel ends
\* as the positional construction from the record's three fields does,
\* whatever readOnly and deferrable were passed beside it; a field the
\* record lacks leaves its clause out.
C6_RecordShape ==
    (IsRecordCall /\ TypeOf(Config.tiLevel) # "object" /\ result.op \in {"new", "call"}) =>
        LET positional == TransactionModeBody(Config)
        IN IF IsThrow(result.value) THEN IsThrow(positional)
           ELSE LET inst == instances[result.value.ref]
                IN /\ ~IsThrow(positional)
                   /\ inst.begin = positional.begin
                   /\ inst.capBegin = positional.capBegin
                   /\ "readOnly" \notin DOMAIN args.tiLevel.f
                        => ~HasReadOnly(inst.begin) /\ ~HasReadWrite(inst.begin)
                   /\ "deferrable" \notin DOMAIN args.tiLevel.f
                        => ~HasDeferrable(inst.begin)

\* A record without readOnly, passed beside a positional readOnly of true,
\* has been constructed.
C6_Witness ==
    /\ Constructed
    /\ IsRecordCall
    /\ DOMAIN args.tiLevel.f = {"tiLevel", "deferrable"}
    /\ Config.tiLevel = Num(3, 0)
    /\ Config.deferrable = Bool(FALSE)
    /\ args.readOnly = Bool(TRUE)
    /\ args.deferrable = Bool(TRUE)

\* C7: what begin returned for a true flag is what it returned for a false
\* flag converted to upper case; the false flag gives the lower-case
\* string and the true flag the upper-case one.
C7_CaseLaw ==
    \A i \in DOMAIN instances :
        /\ (first[i].lower # Undefined /\ first[i].upper # Undefined)
              => first[i].upper.s = ToUpperCase(first[i].lower.s)
        /\ first[i].lower # Undefined => IsLowerCase(first[i].lower.s)
        /\ first[i].upper # Undefined => IsUpperCase(first[i].upper.s)

\* begin has been called with both flags on an instance with clauses.
C7_Witness ==
    /\ instances # <<>>
    /\ first[1].lower = Str(<<"b", "e", "g", "i", "n", " ", "i", "s", "o", "l", "a", "t", "i", "o", "n", " ", "l", "e", "v", "e", "l", " ", "s", "e", "r", "i", "a", "l", "i", "z", "a", "b", "l", "e", " ", "r", "e", "a", "d", " ", "o", "n", "l", "y", " ", "d", "e", "f", "e", "r", "r", "a", "b", "l", "e">>)
    /\ first[1].upper # Undefined
    /\ result.op = "begin"

\* C8: on every instance begin returns, for each flag, the string it
\* returned on its first call with that flag, whatever calls and
\* constructions came in between.
C8_Stable ==
    /\ \A i \in DOMAIN instances :
          /\ first[i].lower # Undefined => Str(BeginFn(instances[i], Bool(FALSE))) = first[i].lower
          /\ first[i].upper # Undefined => Str(BeginFn(instances[i], Bool(TRUE))) = first[i].upper
    /\ result.op = "begin" =>
          result.value = first[result.ref][IF result.cap THEN "upper" ELSE "lower"]

\* begin is called again on the first instance after a second instance with
\* another configuration was constructed and used.
C8_Witness ==
    /\ Len(instances) = 2
    /\ instances[1].begin # instances[2].begin
    /\ first[2].lower # Undefined
    /\ result.op = "begin"
    /\ result.ref = 1
    /\ result.again

\* C9: the enumeration maps exactly none to 0, serializable to 1,
\* repeatableRead to 2 and readCommitted to 3, after every attempt to
\* assign, add or delete a member and after every construction.
C9_Registry ==
    isolationLevel.props
        = [none |-> 0, serializable |-> 1, repeatableRead |-> 2, readCommitted |-> 3]

\* A caller tried to assign, add or delete a member, with instances
\* already constructed.
C9_Witness ==
    /\ result.op \in {"assign", "add", "delete"}
    /\ instances # <<>>

\* C10: a call without new ends as new does on the same three arguments:
\* it returns an instance with the same two strings, or throws when new
\* throws.
C10_WithoutNew ==
    result.op = "call" =>
        LET direct == TransactionModeBody(args)
        IN IF IsThrow(result.value) THEN IsThrow(direct)
           ELSE /\ result.value.t = "instance"
                /\ ~IsThrow(direct)
                /\ \A cap \in CapValues :
                      BeginFn(instances[result.value.ref], cap) = BeginFn(direct, cap)

\* A call without new with readOnly and deferrable given has returned.
C10_Witness ==
    /\ result.op = "call"
    /\ result.value.t = "instance"
    /\ args.tiLevel = Num(2, 0)
    /\ args.readOnly = Bool(TRUE)
    /\ args.deferrable = Bool(FALSE)
====
